---- MODULE Spec2Model ----
(***************************************************************************)
(* Model of sec_edgar_downloader.Downloader.get: the validation and        *)
(* normalisation of the caller's arguments, the call of the resolver       *)
(* (get_filing_urls_to_download), the call of the fetcher                  *)
(* (download_filings) and the returned count.                              *)
(*                                                                         *)
(* Python strings are sequences of one-character strings; None-able        *)
(* arguments are records [some, val].                                      *)
(***************************************************************************)
EXTENDS Integers, Sequences, FiniteSets, TLC

VARIABLES
    pc,               \* position of the one call of get
    args,             \* the raw arguments of the call
    idents,           \* successive values of ticker_or_cik
    req,              \* what get passes to get_filing_urls_to_download
    registry,         \* the registry's hits for the entity, in its native order
    start_index,      \* the resolver's pagination cursor
    filings_to_fetch, \* the resolver's result so far / as returned
    fetch_log,        \* registry indices of the filings fetched, in order
    primary_written,  \* primary documents written to disk
    detail_written,   \* detail documents written to disk
    result,           \* the value get returned ([some, val])
    error,            \* the exception get raised ("none" when none)
    resolver_calls,   \* invocations of get_filing_urls_to_download
    resolver_returned,\* the resolver returned its complete sequence
    resolver_failed,  \* the resolver met a response without the expected fields
    fetcher_calls,    \* invocations of download_filings
    net_requests      \* network requests issued (search pages and documents)

vars == << pc, args, idents, req, registry, start_index,
           filings_to_fetch, fetch_log, primary_written, detail_written,
           result, error, resolver_calls, resolver_returned, resolver_failed,
           fetcher_calls, net_requests >>

----------------------------------------------------------------------------
(* Bounds of the model *)

MaxHits == 3        \* hits the registry holds
PageSize == 2       \* hits per page of the search interface
MaxNum == 2         \* largest num_filings_to_download a caller passes
MaxIdLen == 3       \* longest identifier explored for normalisation
MaxApps == 2        \* how often the normalisation is re-applied

----------------------------------------------------------------------------
(* Characters and Python string operations *)

Digits == << "0", "1", "2", "3", "4", "5", "6", "7", "8", "9" >>

LowerLetters == << "a", "b", "c", "d", "e", "f", "g", "h", "i", "j", "k", "l", "m",
                   "n", "o", "p", "q", "r", "s", "t", "u", "v", "w", "x", "y", "z" >>

UpperLetters == << "A", "B", "C", "D", "E", "F", "G", "H", "I", "J", "K", "L", "M",
                   "N", "O", "P", "Q", "R", "S", "T", "U", "V", "W", "X", "Y", "Z" >>

Whitespace == { " ", "\t" }

IsDigit(c) == \E i \in 1..10 : Digits[i] = c

DigitVal(c) == (CHOOSE i \in 1..10 : Digits[i] = c) - 1

\* Code point of a character (ASCII).
Ord(c) ==
    IF IsDigit(c) THEN 48 + DigitVal(c)
    ELSE IF \E i \in 1..26 : UpperLetters[i] = c
         THEN 64 + (CHOOSE i \in 1..26 : UpperLetters[i] = c)
    ELSE IF \E i \in 1..26 : LowerLetters[i] = c
         THEN 96 + (CHOOSE i \in 1..26 : LowerLetters[i] = c)
    ELSE IF c = "\t" THEN 9
    ELSE IF c = " " THEN 32
    ELSE IF c = "-" THEN 45
    ELSE 47    \* "/"

\* Python's s < t on str: lexicographic on code points, a proper prefix is smaller.
RECURSIVE StrLess(_, _)
StrLess(s, t) ==
    IF t = << >> THEN FALSE
    ELSE IF s = << >> THEN TRUE
    ELSE IF Ord(Head(s)) # Ord(Head(t)) THEN Ord(Head(s)) < Ord(Head(t))
    ELSE StrLess(Tail(s), Tail(t))

\* str.upper() on one character
UpperChar(c) ==
    IF \E i \in 1..26 : LowerLetters[i] = c
    THEN UpperLetters[CHOOSE i \in 1..26 : LowerLetters[i] = c]
    ELSE c

upper(s) == [i \in 1..Len(s) |-> UpperChar(s[i])]

\* str.lstrip(chars): drop the longest prefix made of characters of chars
RECURSIVE lstrip(_, _)
lstrip(s, chars) ==
    IF s # << >> /\ Head(s) \in chars THEN lstrip(Tail(s), chars) ELSE s

RECURSIVE rstrip(_, _)
rstrip(s, chars) ==
    IF s # << >> /\ s[Len(s)] \in chars
    THEN rstrip(SubSeq(s, 1, Len(s) - 1), chars)
    ELSE s

\* str.strip(): whitespace off both ends
strip(s) == rstrip(lstrip(s, Whitespace), Whitespace)

\* ticker_or_cik = str(ticker_or_cik).strip().upper().lstrip("0")
normalize(s) == lstrip(upper(strip(s)), { "0" })

----------------------------------------------------------------------------
(* Dates: a calendar date is <<year, month, day>> *)

Pad2(n) == << Digits[(n \div 10) + 1], Digits[(n % 10) + 1] >>

Pad4(n) == << Digits[(n \div 1000) + 1], Digits[((n \div 100) % 10) + 1] >> \o Pad2(n % 100)

\* date.strftime("%Y-%m-%d")
Format(d) == Pad4(d[1]) \o << "-" >> \o Pad2(d[2]) \o << "-" >> \o Pad2(d[3])

IsLeap(y) == (y % 4 = 0 /\ y % 100 # 0) \/ y % 400 = 0

DaysInMonth(y, m) ==
    IF m = 2 THEN (IF IsLeap(y) THEN 29 ELSE 28)
    ELSE IF m \in { 4, 6, 9, 11 } THEN 30 ELSE 31

Num2(s, i) == 10 * DigitVal(s[i]) + DigitVal(s[i + 1])

\* the calendar date a well-formed YYYY-MM-DD string denotes
ParseDate(s) == << 100 * Num2(s, 1) + Num2(s, 3), Num2(s, 6), Num2(s, 9) >>

\* validate_date_format: a strict YYYY-MM-DD calendar date, else a format error
validate_date_format(s) ==
    /\ Len(s) = 10
    /\ s[5] = "-" /\ s[8] = "-"
    /\ \A i \in { 1, 2, 3, 4, 6, 7, 9, 10 } : IsDigit(s[i])
    /\ ParseDate(s)[2] \in 1..12
    /\ ParseDate(s)[3] \in 1..DaysInMonth(ParseDate(s)[1], ParseDate(s)[2])

\* d1 earlier than d2, as calendar dates
DateBefore(d1, d2) ==
    \/ d1[1] < d2[1]
    \/ d1[1] = d2[1] /\ d1[2] < d2[2]
    \/ d1[1] = d2[1] /\ d1[2] = d2[2] /\ d1[3] < d2[3]

EarliestDate == << 2000, 1, 1 >>

Today == << 2026, 11, 2 >>

DEFAULT_AFTER_DATE == Format(EarliestDate)

DEFAULT_BEFORE_DATE == Format(Today)

SUPPORTED_FILINGS == { "8-K", "10-K" }

\* sys.maxsize, cut to the 32-bit integers TLC computes with
maxsize == 2147483647

----------------------------------------------------------------------------
(* The caller's arguments *)

None == [some |-> FALSE, val |-> << >>]

Some(s) == [some |-> TRUE, val |-> s]

\* num_filings_to_download: None, an int, or a float given in halves (3 is 1.5)
NoNum == [kind |-> "none", v |-> 0]

IntNum(n) == [kind |-> "int", v |-> n]

FloatNum(h) == [kind |-> "float", v |-> h]

\* int(x): the identity on an int, truncation toward zero on a float
int(x) ==
    IF x.kind = "float"
    THEN (IF x.v >= 0 THEN x.v \div 2 ELSE -((-x.v) \div 2))
    ELSE x.v

FilingTypeInputs == { "8-K", "10-K", "8-Z" }

TickerInputs == { << " ", "a", "a", "p", "l", " " >> }

NumInputs ==
    { NoNum } \cup { IntNum(n) : n \in -1..MaxNum }
              \cup { FloatNum(h) : h \in { -1, 1, 2 * MaxNum - 1 } }

SampleDates == { << 1999, 12, 31 >>, EarliestDate, << 2017, 1, 1 >>,
                 << 2017, 3, 25 >>, << 2027, 1, 1 >> }

MalformedDates == { << "2", "0", "1", "7", "-", "3", "-", "2", "5" >>,
                    << "2", "0", "1", "7", "-", "0", "2", "-", "3", "0" >> }

DateInputs == { None } \cup { Some(Format(d)) : d \in SampleDates }
                       \cup { Some(s) : s \in MalformedDates }

\* Every kind of argument, valid or not
ArgInputs ==
    [ filing_type : FilingTypeInputs,
      ticker_or_cik : TickerInputs,
      num_filings_to_download : NumInputs,
      after_date : DateInputs,
      before_date : DateInputs,
      include_amends : BOOLEAN,
      include_filing_details : BOOLEAN ]

\* Calls that differ in what reaches the resolver and the fetcher
WindowInputs == { None, Some(Format(<< 2017, 1, 1 >>)), Some(Format(<< 2017, 3, 25 >>)) }

PipelineArgInputs ==
    [ filing_type : { "8-K" },
      ticker_or_cik : { << "0", "0", "0", "0", "1", "0", "2", "9", "0", "9" >> },
      num_filings_to_download : { NoNum } \cup { IntNum(n) : n \in 0..MaxNum },
      after_date : WindowInputs,
      before_date : WindowInputs,
      include_amends : BOOLEAN,
      include_filing_details : BOOLEAN ]

NoArgs ==
    [ filing_type |-> "",
      ticker_or_cik |-> << >>,
      num_filings_to_download |-> NoNum,
      after_date |-> None,
      before_date |-> None,
      include_amends |-> FALSE,
      include_filing_details |-> TRUE ]

----------------------------------------------------------------------------
(* Downloader.get: validation and normalisation *)

NoError == [type |-> "none", field |-> ""]

ValueError(f) == [type |-> "ValueError", field |-> f]

\* Variant: the membership test is left out.
FilingTypeUnchecked(ft) == FALSE

\* if filing_type not in SUPPORTED_FILINGS: raise
FilingTypeUnsupported(ft) == ft \notin SUPPORTED_FILINGS

\* Variant: the count is taken as unbounded whatever the caller passed.
ResolveNumUnbounded(x) == maxsize

\* num_filings_to_download after the None default and int()
ResolveNum(x) == IF x.kind = "none" THEN maxsize ELSE int(x)

\* Variant: the bound of the error message, "a number greater than 1".
NumInvalidAsMessage(n) == n <= 1

\* if num_filings_to_download < 1: raise
NumInvalid(n) == n < 1

\* after_date after the None default and str()
ResolveAfter(d) == IF d.some THEN d.val ELSE DEFAULT_AFTER_DATE

\* before_date after the None default and str()
ResolveBefore(d) == IF d.some THEN d.val ELSE DEFAULT_BEFORE_DATE

\* Variant: the check against the earliest date is left out.
AfterDateTooEarlyUnchecked(after) == FALSE

\* if after_date < DEFAULT_AFTER_DATE: raise   (a comparison of strings)
AfterDateTooEarly(after) == StrLess(after, DEFAULT_AFTER_DATE)

\* Variant: >= in place of >.
DatesOutOfOrderOrEqual(after, before) == ~StrLess(after, before)

\* Variant: the comparison the wrong way round.
DatesOutOfOrderReversed(after, before) == StrLess(after, before)

\* if after_date is not None and after_date > before_date: raise
DatesOutOfOrder(after, before) == StrLess(before, after)

\* The first check of get that raises, in the order get makes them.
ValidationError(a) ==
    IF FilingTypeUnsupported(a.filing_type) THEN ValueError("filing_type")
    ELSE IF a.num_filings_to_download.kind # "none"
            /\ NumInvalid(ResolveNum(a.num_filings_to_download))
         THEN ValueError("num_filings_to_download")
    ELSE IF a.after_date.some /\ ~validate_date_format(a.after_date.val)
         THEN ValueError("after_date format")
    ELSE IF a.after_date.some /\ AfterDateTooEarly(a.after_date.val)
         THEN ValueError("after_date")
    ELSE IF a.before_date.some /\ ~validate_date_format(a.before_date.val)
         THEN ValueError("before_date format")
    ELSE IF DatesOutOfOrder(ResolveAfter(a.after_date), ResolveBefore(a.before_date))
         THEN ValueError("after_date > before_date")
    ELSE NoError

\* The arguments of get_filing_urls_to_download
Request(a) ==
    [ filing_type |-> a.filing_type,
      ticker_or_cik |-> normalize(a.ticker_or_cik),
      num_filings_to_download |-> ResolveNum(a.num_filings_to_download),
      after_date |-> ResolveAfter(a.after_date),
      before_date |-> ResolveBefore(a.before_date),
      include_amends |-> a.include_amends ]

NoRequest ==
    [ filing_type |-> "",
      ticker_or_cik |-> << >>,
      num_filings_to_download |-> 0,
      after_date |-> << >>,
      before_date |-> << >>,
      include_amends |-> FALSE ]

\* Variant: a try/except around the resolver that goes on with what it has.
PcAfterResolverSwallow(failed) == "fetching"

\* Where get goes once the resolver is done: an exception of the resolver
\* propagates (no try/except), otherwise download_filings is called.
PcAfterResolver(failed) == IF failed THEN "raised" ELSE "fetching"

\* Variant: the count asked for is returned.
GetReturnRequested == req.num_filings_to_download

\* Variant: the number of files written is returned.
GetReturnFilesWritten == primary_written + detail_written

\* return len(filings_to_fetch)
GetReturn == Len(filings_to_fetch)

----------------------------------------------------------------------------
(* The registry and the resolver, get_filing_urls_to_download *)

HitDates == { << 2017, 1, 1 >>, << 2017, 2, 1 >>, << 2020, 5, 5 >> }

Hits == [ file_date : { Format(d) : d \in HitDates }, is_amend : BOOLEAN ]

\* The registry lists an entity's filings most recent first.
DateDescending(r) ==
    \A i \in 1..(Len(r) - 1) : ~StrLess(r[i].file_date, r[i + 1].file_date)

Registries ==
    { r \in UNION { [1..k -> Hits] : k \in 0..MaxHits } : DateDescending(r) }

FilingRef(h, i) == [idx |-> i, file_date |-> h.file_date]

\* One page of hits, hit by hit: a hit older than after_date ends the search,
\* a hit newer than before_date or an amendment that is not wanted is skipped,
\* any other is appended, and the search ends at num_filings_to_download.
RECURSIVE ScanPage(_, _, _, _)
ScanPage(hits, i, acc, r) ==
    IF hits = << >> THEN [filings |-> acc, done |-> FALSE]
    ELSE LET h == Head(hits) IN
         IF StrLess(h.file_date, r.after_date)
         THEN [filings |-> acc, done |-> TRUE]
         ELSE IF StrLess(r.before_date, h.file_date)
                 \/ (h.is_amend /\ ~r.include_amends)
         THEN ScanPage(Tail(hits), i + 1, acc, r)
         ELSE LET acc2 == Append(acc, FilingRef(h, i)) IN
              IF Len(acc2) = r.num_filings_to_download
              THEN [filings |-> acc2, done |-> TRUE]
              ELSE ScanPage(Tail(hits), i + 1, acc2, r)

\* The page of the search interface that starts after start_index hits
Page(reg, start) ==
    SubSeq(reg, start + 1,
           IF start + PageSize < Len(reg) THEN start + PageSize ELSE Len(reg))

\* The most detail documents one filing carries
MaxDetails == 1

\* Detail documents download_filings fetches for a filing that carries nd of
\* them: all with include_filing_details, none without
DetailFiles(nd, include_filing_details) ==
    IF include_filing_details THEN nd ELSE 0

----------------------------------------------------------------------------
(* The state machine *)

\* No call of get has been made.
Idle ==
    /\ pc = "idle"
    /\ args = NoArgs
    /\ req = NoRequest
    /\ start_index = 0
    /\ filings_to_fetch = << >>
    /\ fetch_log = << >>
    /\ primary_written = 0
    /\ detail_written = 0
    /\ result = [some |-> FALSE, val |-> 0]
    /\ error = NoError
    /\ resolver_calls = 0
    /\ resolver_returned = FALSE
    /\ resolver_failed = FALSE
    /\ fetcher_calls = 0
    /\ net_requests = 0

Init ==
    /\ Idle
    /\ idents = << >>
    /\ registry \in Registries

\* The registry holds at most one hit.
InitSmall ==
    /\ Idle
    /\ idents = << >>
    /\ registry \in { r \in Registries : Len(r) <= 1 }

\* get(...) up to its call of get_filing_urls_to_download
Get(a) ==
    /\ pc = "idle"
    /\ args' = a
    /\ idents' = IF FilingTypeUnsupported(a.filing_type)
                 THEN << a.ticker_or_cik >>
                 ELSE << a.ticker_or_cik, normalize(a.ticker_or_cik) >>
    /\ IF ValidationError(a) # NoError
       THEN /\ pc' = "raised"
            /\ error' = ValidationError(a)
            /\ UNCHANGED << req, resolver_calls >>
       ELSE /\ pc' = "resolving"
            /\ req' = Request(a)
            /\ resolver_calls' = resolver_calls + 1
            /\ UNCHANGED error
    /\ UNCHANGED << registry, start_index, filings_to_fetch, fetch_log,
                    primary_written, detail_written, result, resolver_returned,
                    resolver_failed, fetcher_calls, net_requests >>

\* The resolver requests one page of the search interface and reads it.
\* When it returns, get calls download_filings.
ResolvePage(schema_ok) ==
    /\ pc = "resolving"
    /\ net_requests' = net_requests + 1
    /\ IF ~schema_ok
       THEN /\ resolver_failed' = TRUE
            /\ pc' = PcAfterResolver(TRUE)
            /\ error' = IF pc' = "raised"
                        THEN [type |-> "KeyError", field |-> "hits"]
                        ELSE error
            /\ fetcher_calls' = IF pc' = "fetching" THEN fetcher_calls + 1
                                ELSE fetcher_calls
            /\ UNCHANGED << start_index, filings_to_fetch, resolver_returned >>
       ELSE LET page == Page(registry, start_index)
                scan == ScanPage(page, start_index + 1, filings_to_fetch, req)
                returns == page = << >> \/ scan.done
            IN  /\ filings_to_fetch' = scan.filings
                /\ IF returns
                   THEN /\ resolver_returned' = TRUE
                        /\ pc' = PcAfterResolver(FALSE)
                        /\ fetcher_calls' = fetcher_calls + 1
                        /\ UNCHANGED start_index
                   ELSE /\ start_index' = start_index + PageSize
                        /\ UNCHANGED << pc, resolver_returned, fetcher_calls >>
                /\ UNCHANGED << resolver_failed, error >>
    /\ UNCHANGED << args, idents, req, registry, fetch_log, primary_written,
                    detail_written, result, resolver_calls >>

\* download_filings fetches and writes the next filing of the sequence; a
\* failed request aborts it and get with it.
FetchFiling(outcome, details) ==
    /\ pc = "fetching"
    /\ Len(fetch_log) < Len(filings_to_fetch)
    /\ LET f == filings_to_fetch[Len(fetch_log) + 1]
           nd == DetailFiles(details, args.include_filing_details)
       IN  /\ outcome = "fail_detail" => nd > 0
           /\ outcome = "fail_primary" => details = 0
           /\ fetch_log' = Append(fetch_log, f.idx)
           /\ net_requests' = net_requests
                              + (IF outcome = "fail_primary" THEN 1 ELSE 1 + nd)
           /\ primary_written' = primary_written
                                 + (IF outcome = "fail_primary" THEN 0 ELSE 1)
           /\ detail_written' = detail_written
                                + (IF outcome = "ok" THEN nd ELSE 0)
           /\ IF outcome = "ok"
              THEN UNCHANGED << pc, error >>
              ELSE /\ pc' = "raised"
                   /\ error' = [type |-> "HTTPError", field |-> outcome]
    /\ UNCHANGED << args, idents, req, registry, start_index, filings_to_fetch,
                    result, resolver_calls, resolver_returned, resolver_failed,
                    fetcher_calls >>

\* download_filings has returned: return len(filings_to_fetch)
Return ==
    /\ pc = "fetching"
    /\ Len(fetch_log) = Len(filings_to_fetch)
    /\ pc' = "returned"
    /\ result' = [some |-> TRUE, val |-> GetReturn]
    /\ UNCHANGED << args, idents, req, registry, start_index, filings_to_fetch,
                    fetch_log, primary_written, detail_written, error,
                    resolver_calls, resolver_returned, resolver_failed,
                    fetcher_calls, net_requests >>

Next ==
    \/ \E a \in ArgInputs : Get(a)
    \/ \E ok \in BOOLEAN : ResolvePage(ok)
    \/ \E o \in { "ok", "fail_primary", "fail_detail" } :
           \E nd \in 0..MaxDetails : FetchFiling(o, nd)
    \/ Return

\* Every kind of argument, against a registry of at most one hit
Spec == InitSmall /\ [][Next]_vars

NextPipeline ==
    \/ \E a \in PipelineArgInputs : Get(a)
    \/ \E ok \in BOOLEAN : ResolvePage(ok)
    \/ \E o \in { "ok", "fail_primary", "fail_detail" } :
           \E nd \in 0..MaxDetails : FetchFiling(o, nd)
    \/ Return

\* Every registry, against the calls that differ for the resolver and the fetcher
SpecPipeline == Init /\ [][NextPipeline]_vars

----------------------------------------------------------------------------
(* The normalisation of ticker_or_cik alone, re-applied to its own result *)

IdAlphabet == { "a", "A", "0", "1", " " }

IdInputs == UNION { [1..k -> IdAlphabet] : k \in 0..MaxIdLen }

InitNorm ==
    /\ Idle
    /\ idents \in { << s >> : s \in IdInputs }
    /\ registry = << >>

\* ticker_or_cik = str(ticker_or_cik).strip().upper().lstrip("0"), on the
\* identifier the previous application produced
Normalize ==
    /\ pc = "idle"
    /\ Len(idents) <= MaxApps
    /\ idents' = Append(idents, normalize(idents[Len(idents)]))
    /\ UNCHANGED << pc, args, req, registry, start_index, filings_to_fetch,
                    fetch_log, primary_written, detail_written, result, error,
                    resolver_calls, resolver_returned, resolver_failed,
                    fetcher_calls, net_requests >>

NextNorm == Normalize

SpecNorm == InitNorm /\ [][NextNorm]_vars

----------------------------------------------------------------------------
(* What the properties speak of, read off the caller's arguments as calendar *)
(* dates and numbers, not off get's own comparisons                          *)

Called == pc # "idle"

WellFormed(d) == d.some => validate_date_format(d.val)

\* The after-date and before-date of a call once defaults are resolved
AfterDateOf(a) == IF a.after_date.some THEN ParseDate(a.after_date.val) ELSE EarliestDate

BeforeDateOf(a) == IF a.before_date.some THEN ParseDate(a.before_date.val) ELSE Today

\* The caller's max count is below 1 (a float is given in halves)
CountBelowOne(x) ==
    \/ x.kind = "int" /\ x.v < 1
    \/ x.kind = "float" /\ x.v < 2

AfterBelowEarliest(a) ==
    /\ a.after_date.some
    /\ validate_date_format(a.after_date.val)
    /\ DateBefore(ParseDate(a.after_date.val), EarliestDate)

AfterLaterThanBefore(a) ==
    /\ WellFormed(a.after_date) /\ WellFormed(a.before_date)
    /\ DateBefore(BeforeDateOf(a), AfterDateOf(a))

InvalidInputs(a) ==
    \/ a.filing_type \notin SUPPORTED_FILINGS
    \/ CountBelowOne(a.num_filings_to_download)
    \/ ~WellFormed(a.after_date)
    \/ ~WellFormed(a.before_date)
    \/ AfterBelowEarliest(a)
    \/ AfterLaterThanBefore(a)

RaisedValidationError == pc = "raised" /\ error.type = "ValueError"

\* C1: a call of get with invalid inputs (unsupported filing category, max
\* count below 1, a malformed date, after-date before the earliest date, or
\* after-date later than before-date) ends in a validation error, and neither
\* the resolver nor the fetcher was invoked and no network request was made.
C1_InvalidInputsFailBeforeNetwork ==
    (Called /\ InvalidInputs(args)) =>
        /\ RaisedValidationError
        /\ resolver_calls = 0
        /\ fetcher_calls = 0
        /\ net_requests = 0
        /\ ~result.some

\* A call with a malformed before-date, everything else valid, has raised.
C1_Witness ==
    /\ RaisedValidationError
    /\ args.filing_type \in SUPPORTED_FILINGS
    /\ ~CountBelowOne(args.num_filings_to_download)
    /\ args.after_date.some /\ WellFormed(args.after_date)
    /\ ~WellFormed(args.before_date)

\* C2: with well-formed dates, a resolved after-date later than the resolved
\* before-date makes get fail with a validation error, defaults included
\* (after-date later than today, before-date earlier than 2000-01-01); an
\* after-date equal to the before-date is not rejected for its order, and the
\* call reaches the resolver when nothing else is invalid.
C2_AfterLaterThanBeforeFails ==
    (Called /\ WellFormed(args.after_date) /\ WellFormed(args.before_date)) =>
        /\ AfterLaterThanBefore(args) => RaisedValidationError
        /\ AfterDateOf(args) = BeforeDateOf(args) =>
              /\ error.field # "after_date > before_date"
              /\ ~InvalidInputs(args) => (error.type # "ValueError" /\ resolver_calls = 1)

\* Only before-date is given, it is earlier than 2000-01-01, and get raised
\* on the order of the dates.
C2_Witness ==
    /\ RaisedValidationError
    /\ error.field = "after_date > before_date"
    /\ ~args.after_date.some
    /\ args.before_date.some
    /\ DateBefore(BeforeDateOf(args), EarliestDate)

\* C3: with a supported filing category and a valid max count, a well-formed
\* after-date earlier than 2000-01-01 makes get fail with a validation error,
\* whatever before-date and the other arguments are.
C3_AfterBeforeEarliestFails ==
    ( /\ Called
      /\ args.filing_type \in SUPPORTED_FILINGS
      /\ ~CountBelowOne(args.num_filings_to_download)
      /\ AfterBelowEarliest(args) ) =>
        (RaisedValidationError /\ resolver_calls = 0)

\* An after-date before 2000-01-01 was rejected although the before-date, left
\* to its default, is later.
C3_Witness ==
    /\ RaisedValidationError
    /\ error.field = "after_date"
    /\ AfterBelowEarliest(args)
    /\ ~args.before_date.some

\* C4: an omitted max count reaches the resolver as sys.maxsize; a given one
\* makes get fail on the count if and only if its integer value is below 1,
\* and a value of 1 or more reaches the resolver as that integer (an int
\* unchanged, a float truncated).
C4_MaxCountHandling ==
    (Called /\ args.filing_type \in SUPPORTED_FILINGS) =>
        LET x == args.num_filings_to_download IN
        /\ x.kind = "none" =>
              /\ error.field # "num_filings_to_download"
              /\ resolver_calls > 0 => req.num_filings_to_download = maxsize
        /\ x.kind # "none" =>
              /\ (RaisedValidationError /\ error.field = "num_filings_to_download")
                    <=> CountBelowOne(x)
              /\ (resolver_calls > 0 /\ x.kind = "int") =>
                    req.num_filings_to_download = x.v
              /\ (resolver_calls > 0 /\ x.kind = "float") =>
                    /\ 2 * req.num_filings_to_download <= x.v
                    /\ x.v < 2 * req.num_filings_to_download + 2

\* A max count of exactly 1 was accepted and passed on as 1.
C4_Witness ==
    /\ resolver_calls > 0
    /\ args.num_filings_to_download = IntNum(1)
    /\ req.num_filings_to_download = 1

\* C6: whenever get has invoked the resolver, the request it passed has a
\* supported filing category, well-formed dates with
\* 2000-01-01 <= after-date <= before-date, and a max count of at least 1.
C6_RequestDescriptorInvariant ==
    resolver_calls > 0 =>
        /\ req.filing_type \in SUPPORTED_FILINGS
        /\ validate_date_format(req.after_date)
        /\ validate_date_format(req.before_date)
        /\ ~DateBefore(ParseDate(req.after_date), EarliestDate)
        /\ ~DateBefore(ParseDate(req.before_date), ParseDate(req.after_date))
        /\ req.num_filings_to_download >= 1

\* The resolver was invoked for a call that gave a before-date and left
\* after-date and max count out.
C6_Witness ==
    /\ resolver_calls > 0
    /\ ~args.after_date.some
    /\ args.before_date.some
    /\ args.num_filings_to_download.kind = "none"

----------------------------------------------------------------------------
(* The normalisation of the entity identifier *)

\* C5: normalising an identifier that was already normalised leaves it as it
\* is, for every identifier over letters, digits (with "0") and spaces; and
\* "0000102909" normalises to "102909", " aapl " to "AAPL".
C5_NormalizeIdempotent ==
    /\ Len(idents) >= 3 => idents[3] = idents[2]
    /\ normalize(<< "0", "0", "0", "0", "1", "0", "2", "9", "0", "9" >>)
          = << "1", "0", "2", "9", "0", "9" >>
    /\ normalize(<< " ", "a", "a", "p", "l", " " >>) = << "A", "A", "P", "L" >>

----------------------------------------------------------------------------
(* The resolved sequence, the fetch loop and the returned count *)

InWindow(h, a) ==
    /\ ~DateBefore(ParseDate(h.file_date), AfterDateOf(a))
    /\ ~DateBefore(BeforeDateOf(a), ParseDate(h.file_date))

\* The filings of the registry a call asks for, in the registry's order:
\* inside the inclusive window, amendments only when they are wanted
RECURSIVE Eligible(_, _, _)
Eligible(reg, i, a) ==
    IF i > Len(reg) THEN << >>
    ELSE IF InWindow(reg[i], a) /\ (a.include_amends \/ ~reg[i].is_amend)
         THEN << FilingRef(reg[i], i) >> \o Eligible(reg, i + 1, a)
         ELSE Eligible(reg, i + 1, a)

FirstN(seq, n) == SubSeq(seq, 1, IF n < Len(seq) THEN n ELSE Len(seq))

MostRecentFirst(seq) ==
    \A i \in 1..(Len(seq) - 1) :
        /\ ~DateBefore(ParseDate(seq[i].file_date), ParseDate(seq[i + 1].file_date))
        /\ seq[i].idx < seq[i + 1].idx

\* C7: when get returns, its result is the length of the sequence the
\* resolver returned, whatever include_filing_details is and however many
\* files were written; a resolver result of no filings is no error, and get
\* then returns 0.
C7_ReturnsResolvedCount ==
    /\ pc = "returned" => (result.some /\ result.val = Len(filings_to_fetch))
    /\ (resolver_returned /\ filings_to_fetch = << >>) =>
          /\ error = NoError
          /\ pc \in { "fetching", "returned" }
          /\ pc = "returned" => result.val = 0

\* get returned 0 for a valid request.
C7_Witness ==
    /\ pc = "returned"
    /\ result.val = 0
    /\ resolver_returned

\* A call with only a filing category and an entity identifier
DefaultsCall ==
    /\ Called
    /\ args.num_filings_to_download.kind = "none"
    /\ ~args.after_date.some
    /\ ~args.before_date.some
    /\ ~args.include_amends
    /\ args.include_filing_details

\* C8 as stated: for a call with all other arguments at their defaults, the
\* returned count equals the number of files written to disk by that call.
C8_CountEqualsFilesWritten ==
    (pc = "returned" /\ DefaultsCall) =>
        result.val = primary_written + detail_written

\* C8, amended: for a call with all other arguments at their defaults, the
\* returned count equals the number of filings fetched, each of which had its
\* primary document written; the detail documents written come on top of it.
C8_CountEqualsFilingsWritten ==
    (pc = "returned" /\ DefaultsCall) =>
        /\ result.val = Len(fetch_log)
        /\ result.val = primary_written

\* Such a call returned after writing a detail document besides the primary
\* documents.
C8_Witness ==
    /\ pc = "returned"
    /\ DefaultsCall
    /\ result.val >= 1
    /\ detail_written >= 1

\* C9: for a max count n >= 1, the resolved sequence is the first n (or all,
\* if fewer) of the registry's filings that lie in the inclusive window and
\* pass the amendment filter, most recent first; a skipped amendment does not
\* count toward n; get returns at most n.
C9_MostRecentWithinMaxCount ==
    (resolver_returned /\ args.num_filings_to_download.kind # "none") =>
        LET n == args.num_filings_to_download.v IN
        /\ n >= 1
        /\ filings_to_fetch = FirstN(Eligible(registry, 1, args), n)
        /\ Len(filings_to_fetch) <= n
        /\ MostRecentFirst(filings_to_fetch)
        /\ \A i \in 1..Len(filings_to_fetch) :
              args.include_amends \/ ~registry[filings_to_fetch[i].idx].is_amend
        /\ pc = "returned" => result.val <= n

\* With a max count of 1, the resolver skipped an amendment, took the next
\* filing and left a later eligible one out.
C9_Witness ==
    /\ resolver_returned
    /\ args.num_filings_to_download = IntNum(1)
    /\ Len(filings_to_fetch) = 1
    /\ filings_to_fetch[1].idx = 2
    /\ registry[1].is_amend /\ InWindow(registry[1], args)
    /\ Len(Eligible(registry, 1, args)) = 2

C10_Sequential ==
    /\ fetcher_calls > 0 => (resolver_returned /\ fetcher_calls = 1)
    /\ fetch_log # << >> => fetcher_calls = 1
    /\ Len(fetch_log) <= Len(filings_to_fetch)
    /\ \A i \in 1..Len(fetch_log) : fetch_log[i] = filings_to_fetch[i].idx
    /\ primary_written <= Len(fetch_log)
    /\ resolver_failed =>
          /\ pc = "raised" /\ error.type = "KeyError"
          /\ fetcher_calls = 0 /\ fetch_log = << >>
          /\ primary_written = 0 /\ detail_written = 0
          /\ ~result.some
    /\ error.type = "HTTPError" =>
          /\ pc = "raised"
          /\ ~result.some
          /\ fetch_log # << >>
          /\ primary_written >= Len(fetch_log) - 1
    /\ pc = "returned" => (error = NoError /\ primary_written = Len(fetch_log))

\* C10: the fetcher is invoked only after the resolver returned its complete
\* sequence, and filings are fetched one at a time in resolved order; a
\* failure of the resolver leaves the fetcher uninvoked; a failure fetching a
\* filing ends the call with that error and no result, and once get has
\* raised nothing more is fetched or written.
C10_AbortsOnFirstFailure ==
    /\ []C10_Sequential
    /\ [][pc = "raised" => UNCHANGED vars]_vars
    /\ [][fetch_log' # fetch_log =>
            (error = NoError /\ Len(fetch_log') = Len(fetch_log) + 1)]_vars

\* Fetching a filing failed while a later filing was still to be fetched.
C10_Witness ==
    /\ pc = "raised"
    /\ error.type = "HTTPError"
    /\ Len(fetch_log) < Len(filings_to_fetch)

====
